---- MODULE Spec2Model ----
(***************************************************************************)
(* Model of automate_scores.py: the rolling-window request throttle, the   *)
(* disk cache, fetch_html_via_abstractapi with its retry/backoff loop, the *)
(* schedule extractors and the __main__ workflow.                          *)
(*                                                                         *)
(* Time is counted in ticks of half a second, the resolution of the 0.5 s  *)
(* guard that _sleep_to_obey_rate_limit adds to its wait.                  *)
(***************************************************************************)
EXTENDS Integers, Sequences, FiniteSets, TLC

\* ------------------------------------------------------------ configuration
TicksPerSecond == 2

FBREF_URL == "https://fbref.com/en/comps/9/schedule/Premier-League-Scores-and-Fixtures"
SITE == "https://fbref.com"
HFW_REPO == "HFW-App"
OUTPUT_DIR == "weekly_scores"
CACHE_DIR == "fbref_cache"

MAX_REQUESTS_PER_MIN == 10
REQUEST_WINDOW_SECONDS == 60
RateGuardTicks == 1
InitialBackoffSeconds == 1
DefaultMaxRetries == 3
DefaultCacheSeconds == 3600

\* the marker fetch_html_via_abstractapi looks for in a response body
Marker == "Premier League"

\* ------------------------------------------------------------------ bounds
\* the importing program starts no fetch once the clock is past MaxTime
\* ticks; a fetch that has started always runs to its end
MaxTime == 1
\* the generated schedule tables have at most MaxRows rows
MaxRows == 3

\* ------------------------------------------------------------- page values
None == [kind |-> "None"]
Text(w, d) == [kind |-> "text", words |-> w, divs |-> d]
NoCell == "<no td>"
Row(wk, score, href) == [week |-> wk, score |-> score, href |-> href]
SchedDiv(rows) ==
    [id |-> <<"div_sched_", "2025-2026", "_9_", "1">>, hasTable |-> TRUE, rows |-> rows]
OtherDiv == [id |-> <<"div_sched_", "2025-2026", "_12_", "1">>, hasTable |-> TRUE,
             rows |-> <<Row("4", "3-3", "/en/matches/z")>>]

EmptyText == Text(<<>>, <<>>)
ChallengePage == Text(<<"Just a moment...">>, <<>>)
NoTablePage == Text(<<"Premier League", "Scores & Fixtures">>, <<OtherDiv>>)
PendingPage ==
    Text(<<"Premier League">>, <<SchedDiv(<<Row("1", " ", ""), Row("Wk", "1-0", "")>>)>>)
NoLinksPage ==
    Text(<<"Premier League">>, <<SchedDiv(<<Row("1", "2-1", ""), Row("2", "", "/en/matches/x")>>)>>)
SchedulePage ==
    Text(<<"2025-2026", "Premier League">>,
         <<OtherDiv,
           SchedDiv(<<Row(NoCell, NoCell, ""),
                      Row("1", "", ""),
                      Row("2", "2-1", "/en/matches/a"),
                      Row("3", "1-1", "/en/matches/b"),
                      Row("3", "0-2", ""),
                      Row("3", "", "/en/matches/c"),
                      Row("4", "", "")>>)>>)
\* what an earlier run of the program left in the cache
LastWeekPage ==
    Text(<<"Premier League">>, <<SchedDiv(<<Row("1", "0-0", "/en/matches/o")>>)>>)

MarkerPages == {NoTablePage, PendingPage, NoLinksPage, SchedulePage}

\* `if resp.text`: a non-empty string is truthy
Truthy(text) == text.kind = "text" /\ (text.words # <<>> \/ text.divs # <<>>)
\* `"Premier League" in resp.text`
HasMarker(text) == \E i \in 1..Len(text.words) : text.words[i] = Marker

\* ------------------------------------------------------- transport results
Exception == [kind |-> "exception"]
Response(status, text) == [kind |-> "response", status_code |-> status, text |-> text]
NoResponse == [kind |-> "none"]

\* what the transport can answer while the remote site holds page
Responses(page) ==
    {Exception}
      \cup {Response(200, b) : b \in {page, EmptyText, ChallengePage}}
      \cup {Response(s, ChallengePage) : s \in {403, 429}}
      \cup {Response(s, EmptyText) : s \in {500, 599, 600}}
      \cup {Response(404, page)}

\* a transport round trip takes this many ticks
RoundTrips == {0, 1}

\* outcome of writing the cache file (lines 103-108): written; open() failed
\* and the file is as before; open() truncated the file and write failed
WriteOutcomes == {"written", "open_failed", "write_failed"}

\* -------------------------------------------------------------------- state
VARIABLES
    ABSTRACTAPI_KEY,      \* module constant read from the environment
    site,                 \* the page the remote site holds during the run
    now,                  \* time.time(), in ticks
    request_timestamps,   \* _request_timestamps
    files,                \* the files of CACHE_DIR: path -> file or NoFile
    pc,                   \* position in fetch_html_via_abstractapi
    url, use_cache_seconds, max_retries,   \* arguments of the current call
    attempt, backoff,     \* locals of the current call
    ret,                  \* value returned by the last call
    \* __main__
    stage,                \* position in the main workflow
    exitStatus,           \* exit status of the process, -1 while running
    target_week, match_links, csvs,
    outputs,              \* paths at which a per-match CSV exists
    artifact,             \* links whose rows are in the combined CSV, or None
    \* history of the run, read by the properties only
    servedFrom,           \* "cache", "network" or "none" for the last return
    recorded,             \* every timestamp ever recorded, in order
    requests,             \* transport invocations of the process
    callRequests,         \* transport invocations of the current call
    backoffSleeps,        \* backoff sleeps of the current call, in ticks
    throttleSleeps,       \* rate-limit sleeps of the current call
    resp,                 \* what the transport answered in the current attempt
    cacheWrite,           \* outcome of the cache write of the current call
    dispatched,           \* links handed to the scorer, in order
    scorerCodes           \* exit codes of the scorer, in order

env == <<ABSTRACTAPI_KEY, site>>
fetchArgs == <<url, use_cache_seconds, max_retries>>
fetchVars == <<now, request_timestamps, files, pc, fetchArgs, attempt, backoff, ret>>
mainVars == <<stage, exitStatus, target_week, match_links, csvs, outputs, artifact,
              dispatched, scorerCodes>>
history == <<servedFrom, recorded, requests, callRequests, backoffSleeps,
             throttleSleeps, resp, cacheWrite>>
vars == <<env, fetchVars, mainVars, history>>

\* -------------------------------------------------------------------- cache
Sha256Hex(u) == IF u = FBREF_URL THEN "5f1c" ELSE "a07e"
cache_path_for_url(u) == <<CACHE_DIR, Sha256Hex(u), ".html">>
CachePaths == {cache_path_for_url(FBREF_URL)}

NoFile == [kind |-> "nofile"]
File(text, mtime) == [kind |-> "file", text |-> text, mtime |-> mtime]
Exists(fs, path) == fs[path].kind = "file"

M_AgeAllowed(age, maxAgeSeconds) == age < maxAgeSeconds * TicksPerSecond

\* line 73
AgeAllowed(age, maxAgeSeconds) == age <= maxAgeSeconds * TicksPerSecond

M_CacheFresh(fs, path, t, maxAgeSeconds) == Exists(fs, path)

\* lines 71-73: the entry exists and its age is within use_cache_seconds
CacheFresh(fs, path, t, maxAgeSeconds) ==
    /\ Exists(fs, path)
    /\ AgeAllowed(t - fs[path].mtime, maxAgeSeconds)

M_WriteCache(fs, path, text, t, outcome) ==
    IF outcome = "written" /\ ~Exists(fs, path) THEN [fs EXCEPT ![path] = File(text, t)] ELSE fs

M_WriteCacheRemoves(fs, path, text, t, outcome) ==
    CASE outcome = "written" -> [fs EXCEPT ![path] = File(text, t)]
      [] OTHER -> [fs EXCEPT ![path] = NoFile]

\* lines 103-108
WriteCache(fs, path, text, t, outcome) ==
    CASE outcome = "written" -> [fs EXCEPT ![path] = File(text, t)]
      [] outcome = "write_failed" -> [fs EXCEPT ![path] = File(EmptyText, t)]
      [] OTHER -> fs

\* ----------------------------------------------------------------- throttle
WindowTicks == REQUEST_WINDOW_SECONDS * TicksPerSecond

RECURSIVE M_purge_old_timestamps(_, _)
M_purge_old_timestamps(ts, t) ==
    IF ts # <<>> /\ ts[1] < t - WindowTicks
    THEN M_purge_old_timestamps(Tail(ts), t)
    ELSE ts

RECURSIVE purge_old_timestamps(_, _)
purge_old_timestamps(ts, t) ==
    IF ts # <<>> /\ ts[1] <= t - WindowTicks
    THEN purge_old_timestamps(Tail(ts), t)
    ELSE ts

M_RateLimitReached(ts) == Len(ts) > MAX_REQUESTS_PER_MIN
RateLimitReached(ts) == Len(ts) >= MAX_REQUESTS_PER_MIN

M_RateLimitWait(ts, t) == (ts[1] + WindowTicks) - t - RateGuardTicks
RateLimitWait(ts, t) == (ts[1] + WindowTicks) - t + RateGuardTicks

M_sleep_to_obey_rate_limit(ts, t) ==
    LET purged == purge_old_timestamps(ts, t) IN
    IF RateLimitReached(purged)
    THEN LET wait == RateLimitWait(purged, t)
             woke == IF wait > 0 THEN t + wait ELSE t
         IN [ts |-> purged, now |-> woke, slept |-> IF wait > 0 THEN 1 ELSE 0]
    ELSE [ts |-> purged, now |-> t, slept |-> 0]

\* result of _sleep_to_obey_rate_limit entered at clock t with window ts
sleep_to_obey_rate_limit(ts, t) ==
    LET purged == purge_old_timestamps(ts, t) IN
    IF RateLimitReached(purged)
    THEN LET wait == RateLimitWait(purged, t)
             woke == IF wait > 0 THEN t + wait ELSE t
         IN [ts |-> purge_old_timestamps(purged, woke), now |-> woke,
             slept |-> IF wait > 0 THEN 1 ELSE 0]
    ELSE [ts |-> purged, now |-> t, slept |-> 0]

\* ------------------------------------------------------------ classification
M_IsSuccess(r) == r.status_code = 200 /\ Truthy(r.text)
IsSuccess(r) == r.status_code = 200 /\ Truthy(r.text) /\ HasMarker(r.text)
M_IsRetryableNo429(r) ==
    \/ r.status_code = 403
    \/ (r.status_code >= 500 /\ r.status_code < 600)
M_IsRetryableWide(r) ==
    \/ r.status_code \in {403, 429}
    \/ r.status_code >= 400
IsRetryable(r) ==
    \/ r.status_code \in {403, 429}
    \/ (r.status_code >= 500 /\ r.status_code < 600)


M_LoopContinuesEarly(a, m) == a + 1 < m
M_LoopContinues(a, m) == a <= m
LoopContinues(a, m) == a < m
M_CredentialMissing(key) == FALSE
CredentialMissing(key) == key = ""

\* --------------------------------------------------------------------- fetch
\* lines 60-81: entry of fetch_html_via_abstractapi(u, seconds, retries)
FetchEntry(u, seconds, retries) ==
    /\ url' = u
    /\ use_cache_seconds' = seconds
    /\ max_retries' = retries
    /\ attempt' = 0
    /\ backoff' = InitialBackoffSeconds * TicksPerSecond
    /\ callRequests' = 0
    /\ backoffSleeps' = <<>>
    /\ throttleSleeps' = 0
    /\ resp' = NoResponse
    /\ cacheWrite' = "none"
    /\ IF CredentialMissing(ABSTRACTAPI_KEY)
       THEN /\ ret' = None
            /\ servedFrom' = "none"
            /\ pc' = "returned"
       ELSE IF CacheFresh(files, cache_path_for_url(u), now, seconds)
       THEN /\ ret' = files[cache_path_for_url(u)].text
            /\ servedFrom' = "cache"
            /\ pc' = "returned"
       ELSE /\ ret' = None
            /\ servedFrom' = "none"
            /\ pc' = "loop"
    /\ UNCHANGED <<env, now, request_timestamps, files, recorded, requests, mainVars>>

\* lines 82-88: one more iteration: count it and obey the rate limit
Attempt ==
    /\ pc = "loop"
    /\ LoopContinues(attempt, max_retries)
    /\ attempt' = attempt + 1
    /\ LET r == sleep_to_obey_rate_limit(request_timestamps, now) IN
         /\ request_timestamps' = r.ts
         /\ now' = r.now
         /\ throttleSleeps' = throttleSleeps + r.slept
    /\ resp' = NoResponse
    /\ pc' = "request"
    /\ UNCHANGED <<env, files, fetchArgs, backoff, ret, servedFrom, recorded, requests,
                   callRequests, backoffSleeps, cacheWrite, mainVars>>

\* lines 82, 126-127: the attempts are used up
Exhausted ==
    /\ pc = "loop"
    /\ ~LoopContinues(attempt, max_retries)
    /\ ret' = None
    /\ servedFrom' = "none"
    /\ pc' = "returned"
    /\ UNCHANGED <<env, now, request_timestamps, files, fetchArgs, attempt, backoff,
                   recorded, requests, callRequests, backoffSleeps, throttleSleeps,
                   resp, cacheWrite, mainVars>>

M_NextBackoff(b) == b + InitialBackoffSeconds * TicksPerSecond

\* lines 94, 115, 120: backoff *= 2.0
NextBackoff(b) == b * 2

\* lines 92-95, 113-116, 118-121: sleep backoff, double it, continue
BackOff(t) ==
    /\ now' = t + backoff
    /\ backoffSleeps' = Append(backoffSleeps, backoff)
    /\ backoff' = NextBackoff(backoff)
    /\ pc' = "loop"
    /\ UNCHANGED <<files, ret, servedFrom, cacheWrite>>

M_ResultAfterWrite(text, outcome) == IF outcome = "written" THEN text ELSE None

\* lines 107-109: a failed write is caught and the body is returned all the same
ResultAfterWrite(text, outcome) == text

\* line 100, reached at clock t after a response r; the except branch of
\* lines 91-95 continues the loop before reaching it
RecordsRequest(r) == r.kind = "response"

\* lines 89-124: the transport is invoked; the round trip takes d ticks and
\* ends in r; a cache write, if any, ends in w
Request(r, d, w) ==
    /\ pc = "request"
    /\ requests' = requests + 1
    /\ callRequests' = callRequests + 1
    /\ resp' = r
    /\ LET t == now + d IN
       /\ IF RecordsRequest(r)
          THEN /\ request_timestamps' = Append(request_timestamps, t)
               /\ recorded' = Append(recorded, t)
          ELSE UNCHANGED <<request_timestamps, recorded>>
       /\ IF r.kind = "exception"
          THEN BackOff(t)
          ELSE IF IsSuccess(r)
          THEN /\ files' = WriteCache(files, cache_path_for_url(url), r.text, t, w)
               /\ cacheWrite' = w
               /\ ret' = ResultAfterWrite(r.text, w)
               /\ servedFrom' = "network"
               /\ now' = t
               /\ pc' = "returned"
               /\ UNCHANGED <<backoff, backoffSleeps>>
          ELSE IF IsRetryable(r)
          THEN BackOff(t)
          ELSE /\ ret' = None
               /\ servedFrom' = "none"
               /\ now' = t
               /\ pc' = "returned"
               /\ UNCHANGED <<files, backoff, backoffSleeps, cacheWrite>>
    /\ UNCHANGED <<env, fetchArgs, attempt, throttleSleeps, mainVars>>

Transport ==
    \E r \in Responses(site), d \in RoundTrips, w \in WriteOutcomes : Request(r, d, w)

\* ---------------------------------------------------------------- extractors
IdStartsWith(id, prefix) == Len(id) >= 1 /\ id[1] = prefix
IdContains(id, part) == \E i \in 1..Len(id) : id[i] = part

\* lines 130-144; NoTable stands for the None it returns
NoTable == [kind |-> "None", rows |-> <<>>]
find_premier_league_table(text) ==
    LET hits == {i \in 1..Len(text.divs) :
                    /\ IdStartsWith(text.divs[i].id, "div_sched_")
                    /\ IdContains(text.divs[i].id, "_9_")}
    IN IF hits = {} THEN NoTable
       ELSE LET first == CHOOSE i \in hits : \A j \in hits : i <= j IN
            IF text.divs[first].hasTable
            THEN [kind |-> "table", rows |-> text.divs[first].rows]
            ELSE NoTable

\* str.strip() and int() on the cell texts the pages hold
Strip(s) == IF s = " " THEN "" ELSE s
IntTexts == {"0", "1", "2", "3", "4"}
IntOf(s) == CASE s = "0" -> 0 [] s = "1" -> 1 [] s = "2" -> 2 [] s = "3" -> 3 [] OTHER -> 4
ParsesAsInt(s) == Strip(s) \in IntTexts

Week(n) == [kind |-> "int", value |-> n]
\* `not target_week`
Falsy(v) == v = None \/ v.value = 0

M_RowCompleted(r) == r.week # NoCell /\ r.score # NoCell
\* line 154
RowCompleted(r) == r.week # NoCell /\ r.score # NoCell /\ Strip(r.score) # ""

\* line 159
Latest(weeks) == CHOOSE w \in weeks : \A v \in weeks : v <= w

\* lines 146-161
get_latest_completed_week_from_soup(text) ==
    LET table == find_premier_league_table(text)
        weeks == {IntOf(Strip(table.rows[i].week)) :
                     i \in {j \in 1..Len(table.rows) :
                               /\ RowCompleted(table.rows[j])
                               /\ ParsesAsInt(table.rows[j].week)}}
    IN IF table = NoTable THEN None
       ELSE IF weeks = {} THEN None ELSE Week(Latest(weeks))

\* lines 163-181
get_links_by_week_from_soup(text, target) ==
    LET table == find_premier_league_table(text)
        Wanted(r) == /\ r.week # NoCell
                     /\ ParsesAsInt(r.week)
                     /\ IntOf(Strip(r.week)) = target
                     /\ r.href # ""
        rows == SelectSeq(table.rows, Wanted)
    IN [i \in 1..Len(rows) |-> <<SITE, rows[i].href>>]

\* ---------------------------------------------------------------- __main__
\* line 186, 194: the path run_match returns for index idx
MatchCsv(idx) == <<HFW_REPO, OUTPUT_DIR, idx>>

M_HasContent(html) == html # None
\* line 209: `if not html`
HasContent(html) == Truthy(html)

M_ScorerFailed(code) == FALSE
\* line 191: check=True raises CalledProcessError on a non-zero exit code
ScorerFailed(code) == code # 0

\* line 208
MainFetch ==
    /\ stage = "START"
    /\ pc = "idle"
    /\ FetchEntry(FBREF_URL, DefaultCacheSeconds, DefaultMaxRetries)

\* lines 209-211
MainFetched ==
    /\ stage = "START"
    /\ pc = "returned"
    /\ IF HasContent(ret)
       THEN stage' = "FETCHED" /\ UNCHANGED exitStatus
       ELSE stage' = "ABORTED" /\ exitStatus' = 0
    /\ UNCHANGED <<env, fetchVars, history, target_week, match_links, csvs, outputs,
                   artifact, dispatched, scorerCodes>>

\* lines 213-217
ResolvePeriod ==
    /\ stage = "FETCHED"
    /\ target_week' = get_latest_completed_week_from_soup(ret)
    /\ IF Falsy(target_week')
       THEN stage' = "ABORTED" /\ exitStatus' = 0
       ELSE stage' = "PERIOD_RESOLVED" /\ UNCHANGED exitStatus
    /\ UNCHANGED <<env, fetchVars, history, match_links, csvs, outputs, artifact,
                   dispatched, scorerCodes>>

\* lines 219-222
ResolveLinks ==
    /\ stage = "PERIOD_RESOLVED"
    /\ match_links' = get_links_by_week_from_soup(ret, target_week.value)
    /\ IF match_links' = <<>>
       THEN stage' = "ABORTED" /\ exitStatus' = 0
       ELSE stage' = "LINKS_RESOLVED" /\ UNCHANGED exitStatus
    /\ UNCHANGED <<env, fetchVars, history, target_week, csvs, outputs, artifact,
                   dispatched, scorerCodes>>

\* lines 225-228 with run_match, lines 184-194: the scorer is run on the next
\* link, exits with code and leaves (or not) its CSV
RunMatch(code, left) ==
    /\ stage = "LINKS_RESOLVED"
    /\ LET i == Len(csvs) IN
         /\ dispatched' = Append(dispatched, match_links[i + 1])
         /\ scorerCodes' = Append(scorerCodes, code)
         /\ outputs' = IF left THEN outputs \cup {MatchCsv(i)} ELSE outputs
         /\ IF ScorerFailed(code)
            THEN /\ stage' = "CRASHED"
                 /\ exitStatus' = 1
                 /\ UNCHANGED csvs
            ELSE /\ csvs' = Append(csvs, MatchCsv(i))
                 /\ stage' = IF i + 1 = Len(match_links) THEN "DISPATCHED" ELSE stage
                 /\ UNCHANGED exitStatus
    /\ UNCHANGED <<env, fetchVars, history, target_week, match_links, artifact>>

Dispatch == \E code \in {0, 1}, left \in BOOLEAN : RunMatch(code, left)

\* lines 196-203, called at line 232: the links whose CSV exists, in order
combine_results(paths, present, links) ==
    LET Found(p) == p \in present
        found == SelectSeq(paths, Found)
    IN IF found = <<>> THEN None
       ELSE [kind |-> "csv", rows |-> [i \in 1..Len(found) |-> links[found[i][3] + 1]]]

\* lines 230-232
Merge ==
    /\ stage = "DISPATCHED"
    /\ artifact' = combine_results(csvs, outputs, match_links)
    /\ IF artifact' = None
       THEN stage' = "ABORTED" /\ exitStatus' = 0
       ELSE stage' = "MERGED" /\ UNCHANGED exitStatus
    /\ UNCHANGED <<env, fetchVars, history, target_week, match_links, csvs, outputs,
                   dispatched, scorerCodes>>

\* lines 234-235
Finish ==
    /\ stage = "MERGED"
    /\ stage' = "DONE"
    /\ exitStatus' = 0
    /\ UNCHANGED <<env, fetchVars, history, target_week, match_links, csvs, outputs,
                   artifact, dispatched, scorerCodes>>

\* ------------------------------------------------------------------ callers
\* a program that imports the module and calls fetch again and again
Call ==
    /\ stage = "IMPORTED"
    /\ pc \in {"idle", "returned"}
    /\ now <= MaxTime
    /\ FetchEntry(FBREF_URL, DefaultCacheSeconds, DefaultMaxRetries)

\* time passes between two calls
Idle ==
    /\ stage = "IMPORTED"
    /\ pc \in {"idle", "returned"}
    /\ now <= MaxTime
    /\ now' = now + 1
    /\ UNCHANGED <<env, request_timestamps, files, pc, fetchArgs, attempt, backoff, ret,
                   mainVars, history>>

\* ----------------------------------------------------------- specifications
\* the cache directory outlives the process: it is empty, or holds what an
\* earlier run stored DefaultCacheSeconds ago or one tick before that, or
\* the empty file an earlier failed write left a tick ago
InitFiles ==
    {[p \in CachePaths |-> f] :
        f \in {NoFile,
               File(LastWeekPage, 0 - DefaultCacheSeconds * TicksPerSecond),
               File(LastWeekPage, 0 - DefaultCacheSeconds * TicksPerSecond - 1),
               File(EmptyText, 0 - 1)}}

InitCommon ==
    /\ ABSTRACTAPI_KEY \in {"", "key"}
    /\ now = 0
    /\ request_timestamps = <<>>
    /\ files \in InitFiles
    /\ pc = "idle"
    /\ url = FBREF_URL
    /\ use_cache_seconds = DefaultCacheSeconds
    /\ max_retries = DefaultMaxRetries
    /\ attempt = 0
    /\ backoff = InitialBackoffSeconds * TicksPerSecond
    /\ ret = None
    /\ exitStatus = -1
    /\ target_week = None
    /\ match_links = <<>>
    /\ csvs = <<>>
    /\ outputs = {}
    /\ artifact = None
    /\ dispatched = <<>>
    /\ servedFrom = "none"
    /\ recorded = <<>>
    /\ requests = 0
    /\ callRequests = 0
    /\ backoffSleeps = <<>>
    /\ throttleSleeps = 0
    /\ resp = NoResponse
    /\ cacheWrite = "none"
    /\ scorerCodes = <<>>

\* the module imported by a program that calls fetch
Init ==
    /\ InitCommon
    /\ stage = "IMPORTED"
    /\ site \in {SchedulePage}

\* the module run as a script
InitRun ==
    /\ InitCommon
    /\ stage = "START"
    /\ site \in MarkerPages

FetchStep == Attempt \/ Exhausted \/ Transport

Next == Call \/ Idle \/ Attempt \/ Exhausted \/ Transport

NextRun ==
    \/ MainFetch \/ Attempt \/ Exhausted \/ Transport
    \/ MainFetched \/ ResolvePeriod \/ ResolveLinks \/ Dispatch \/ Merge \/ Finish

Spec == Init /\ [][Next]_vars

\* the interpreter keeps executing the fetch it is in
FairSpec == Spec /\ WF_vars(FetchStep)

SpecRun == InitRun /\ [][NextRun]_vars

\* the cell texts of a schedule row: lines 151-152 find the week and the
\* score cell, either of which a row may lack
WeekTexts == {NoCell, "Wk", "1", "2", "3"}
ScoreTexts == {NoCell, "", " ", "2-1", "1-1"}
TableRows == {Row(w, s, "/en/matches/m") : w \in WeekTexts, s \in ScoreTexts}
RowSeqs(n) == UNION {[1..k -> TableRows] : k \in 0..n}
\* a schedule div without a table inside, lines 141-143
BareDiv == [id |-> <<"div_sched_", "2025-2026", "_9_", "1">>, hasTable |-> FALSE,
            rows |-> <<>>]
SoupPages ==
    {Text(<<"Premier League">>, <<SchedDiv(rows)>>) : rows \in RowSeqs(MaxRows)}
        \cup {NoTablePage, Text(<<"Premier League">>, <<BareDiv>>)}

\* the script at line 213: fetch has returned html, any page with the marker
InitExtract ==
    /\ ABSTRACTAPI_KEY = "key"
    /\ site \in SoupPages
    /\ now = 0
    /\ request_timestamps = <<0>>
    /\ files = [p \in CachePaths |-> File(site, 0)]
    /\ pc = "returned"
    /\ url = FBREF_URL
    /\ use_cache_seconds = DefaultCacheSeconds
    /\ max_retries = DefaultMaxRetries
    /\ attempt = 1
    /\ backoff = InitialBackoffSeconds * TicksPerSecond
    /\ ret = site
    /\ stage = "FETCHED"
    /\ exitStatus = -1
    /\ target_week = None
    /\ match_links = <<>>
    /\ csvs = <<>>
    /\ outputs = {}
    /\ artifact = None
    /\ dispatched = <<>>
    /\ servedFrom = "network"
    /\ recorded = <<0>>
    /\ requests = 1
    /\ callRequests = 1
    /\ backoffSleeps = <<>>
    /\ throttleSleeps = 0
    /\ resp = Response(200, site)
    /\ cacheWrite = "written"
    /\ scorerCodes = <<>>

NextExtract == ResolvePeriod \/ ResolveLinks

SpecExtract == InitExtract /\ [][NextExtract]_vars

\* ------------------------------------------------------------------- claims
FetchCalled == Call \/ MainFetch
FbrefPath == cache_path_for_url(FBREF_URL)

\* number of recorded timestamps in the window that ends at the i-th record
WindowCount(i) ==
    Cardinality({j \in 1..i : recorded[j] > recorded[i] - WindowTicks})

\* C1: at the moment a request timestamp is recorded, the recorded timestamps
\* in the trailing 60 s window, the new one included, are at most 10
C1_ThrottleSound ==
    \A i \in 1..Len(recorded) : WindowCount(i) <= MAX_REQUESTS_PER_MIN

\* the window was full at some record, the rate limit made a later attempt
\* sleep, and that attempt's request was then recorded
C1_Witness ==
    /\ \E i \in 1..Len(recorded) : WindowCount(i) = MAX_REQUESTS_PER_MIN
    /\ throttleSleeps > 0
    /\ Len(recorded) > MAX_REQUESTS_PER_MIN
    /\ recorded[Len(recorded)] >= now - WindowTicks

\* what a call served from the cache does
ServedFromCache ==
    /\ pc' = "returned"
    /\ servedFrom' = "cache"
    /\ ret' = files[FbrefPath].text
    /\ requests' = requests
    /\ now' = now
    /\ request_timestamps' = request_timestamps
    /\ recorded' = recorded

EntryWithinMaxAge ==
    /\ files[FbrefPath].kind = "file"
    /\ now - files[FbrefPath].mtime <= use_cache_seconds' * TicksPerSecond

GoodResponse(r) ==
    /\ r.kind = "response"
    /\ r.status_code = 200
    /\ r.text # EmptyText
    /\ Marker \in {r.text.words[i] : i \in 1..Len(r.text.words)}

SoftFailure(r) ==
    /\ r.kind = "response"
    /\ r.status_code = 200
    /\ Marker \notin {r.text.words[i] : i \in 1..Len(r.text.words)}

\* C3: a 200 response without the marker is not returned and not cached; a
\* network result is the body of a 200 response that holds the marker
C3_SanityGated ==
    /\ [](servedFrom = "network" => (GoodResponse(resp) /\ ret = resp.text))
    /\ []((pc = "returned" /\ SoftFailure(resp))
             => (ret = None /\ servedFrom = "none" /\ cacheWrite = "none"))
    /\ [][SoftFailure(resp') => files' = files]_vars
    /\ [][files' # files
             => (GoodResponse(resp') /\ files'[FbrefPath].text \in {resp'.text, EmptyText})]_vars

\* a 200 challenge page ended the fetch in failure, the old entry left alone
C3_Witness ==
    /\ pc = "returned"
    /\ resp = Response(200, ChallengePage)
    /\ ret = None
    /\ files[FbrefPath].kind = "file"
    /\ files[FbrefPath].text = LastWeekPage

\* C4: one fetch invokes the transport at most max-attempts times and returns
C4_BoundedRetry ==
    /\ [](callRequests <= max_retries /\ attempt <= max_retries)
    /\ [](pc \in {"loop", "request"} => <>(pc = "returned"))

\* every attempt was used and the fetch returned failure
C4_Witness ==
    /\ pc = "returned"
    /\ callRequests = DefaultMaxRetries
    /\ Len(backoffSleeps) = DefaultMaxRetries
    /\ ret = None

\* C5: a cached payload is returned only if its age at the call is at most
\* max-age; a fetch that finds it older and fails on the network returns None
C5_NoStaleServed ==
    /\ [][(FetchCalled /\ servedFrom' = "cache")
             => (/\ files[FbrefPath].kind = "file"
                 /\ now - files[FbrefPath].mtime <= use_cache_seconds' * TicksPerSecond
                 /\ ret' = files[FbrefPath].text)]_vars
    /\ [][(servedFrom' = "cache" /\ ~FetchCalled) => (servedFrom = "cache" /\ ret' = ret)]_vars
    /\ []((pc = "returned" /\ servedFrom = "none") => ret = None)

\* the entry is older than max-age, three attempts failed, failure returned
C5_Witness ==
    /\ pc = "returned"
    /\ files[FbrefPath].kind = "file"
    /\ files[FbrefPath].text = LastWeekPage
    /\ now - files[FbrefPath].mtime > use_cache_seconds * TicksPerSecond
    /\ callRequests = DefaultMaxRetries
    /\ ret = None

\* C6: after a network success whose cache write succeeded the cache holds the
\* payload, and a fetch made at once returns it from the cache, no transport
C6_RoundTrip ==
    /\ [][(pc = "request" /\ servedFrom' = "network" /\ cacheWrite' = "written")
             => files'[cache_path_for_url(url)] = File(ret', now')]_vars
    /\ [][(/\ FetchCalled
           /\ pc = "returned" /\ servedFrom = "network" /\ cacheWrite = "written"
           /\ files[FbrefPath].mtime = now
           /\ url' = url /\ use_cache_seconds' > 0)
             => (/\ pc' = "returned" /\ servedFrom' = "cache"
                 /\ ret' = ret /\ requests' = requests)]_vars

\* the page fetched from the network was then served from the cache
C6_Witness ==
    /\ pc = "returned"
    /\ servedFrom = "cache"
    /\ ret = SchedulePage
    /\ files[FbrefPath] = File(SchedulePage, now)
    /\ requests = 1

\* C7: without the credential fetch returns failure with no transport call,
\* sleep, record or cache write, and the run exits 0 with nothing dispatched
C7_MissingCredential ==
    /\ [](ABSTRACTAPI_KEY = ""
             => (/\ requests = 0 /\ recorded = <<>> /\ request_timestamps = <<>>
                 /\ now = 0 /\ backoffSleeps = <<>> /\ throttleSleeps = 0
                 /\ cacheWrite = "none" /\ dispatched = <<>>
                 /\ pc \in {"idle", "returned"}
                 /\ (pc = "returned" => ret = None)
                 /\ stage \in {"START", "ABORTED"}
                 /\ exitStatus = IF stage = "ABORTED" THEN 0 ELSE -1))
    /\ [][ABSTRACTAPI_KEY = ""
             => (files' = files /\ (pc = "returned" => stage' = "ABORTED"))]_vars

\* the run ended with status 0 although a servable cache entry was there
C7_Witness ==
    /\ ABSTRACTAPI_KEY = ""
    /\ stage = "ABORTED"
    /\ exitStatus = 0
    /\ files[FbrefPath].kind = "file"
    /\ files[FbrefPath].text = LastWeekPage
    /\ now - files[FbrefPath].mtime <= use_cache_seconds * TicksPerSecond

Rank(st) ==
    CASE st = "START" -> 0 [] st = "FETCHED" -> 1 [] st = "PERIOD_RESOLVED" -> 2
      [] st = "LINKS_RESOLVED" -> 3 [] st = "DISPATCHED" -> 4 [] st = "MERGED" -> 5
      [] st = "DONE" -> 6 [] OTHER -> 7

\* the stage whose input is missing, if any
NoContent == stage = "START" /\ pc = "returned" /\ (ret = None \/ ret = EmptyText)
NoPeriod == stage = "FETCHED" /\ target_week' \in {None, Week(0)}
NoLinks == stage = "PERIOD_RESOLVED" /\ match_links' = <<>>
NoOutputs == stage = "DISPATCHED" /\ \A i \in 1..Len(csvs) : csvs[i] \notin outputs

\* C8: the run moves through START .. DONE in order, never back; a stage
\* whose input is empty ends the run there with status 0, no later stage run
C8_LinearRun ==
    /\ [][stage' # stage
             => (/\ Rank(stage) < 7
                 /\ (Rank(stage') = Rank(stage) + 1 \/ stage' \in {"ABORTED", "CRASHED"}))]_vars
    /\ [][(NoContent \/ NoPeriod \/ NoLinks \/ NoOutputs)
             => (/\ stage' = "ABORTED" /\ exitStatus' = 0
                 /\ dispatched' = dispatched /\ artifact' = None)]_vars
    /\ [][stage \notin {"ABORTED", "DONE"}]_vars
    /\ [](stage = "ABORTED"
             => (/\ exitStatus = 0 /\ artifact = None
                 /\ (dispatched = <<>> \/ Len(csvs) = Len(match_links))))
    /\ [](Rank(stage) < 3 => (dispatched = <<>> /\ artifact = None))

\* every link was dispatched, no CSV was left, and the run ended with status 0
C8_Witness ==
    /\ stage = "ABORTED"
    /\ exitStatus = 0
    /\ Len(dispatched) = 2
    /\ artifact = None

\* C9: a non-zero scorer exit ends the run: no later link is dispatched, the
\* link is not retried, nothing is merged, the exit status is non-zero
C9_DispatchFatal ==
    /\ []((\E i \in 1..Len(scorerCodes) : scorerCodes[i] # 0)
             => (/\ stage = "CRASHED"
                 /\ exitStatus # 0 /\ exitStatus # -1
                 /\ scorerCodes[Len(scorerCodes)] # 0
                 /\ \A i \in 1..(Len(scorerCodes) - 1) : scorerCodes[i] = 0
                 /\ dispatched = SubSeq(match_links, 1, Len(dispatched))
                 /\ artifact = None))
    /\ [][stage # "CRASHED"]_vars

\* the scorer failed on the first of two links; the second was never run
C9_Witness ==
    /\ stage = "CRASHED"
    /\ scorerCodes = <<1>>
    /\ Len(match_links) = 2
    /\ Len(dispatched) = 1

\* C10 as stated: every transport invocation appends one timestamp, so the
\* timestamps recorded are as many as the transport invocations
C10_RequestAccounting ==
    (pc # "request") => Len(recorded) = requests

BaseBackoff == InitialBackoffSeconds * TicksPerSecond

RetryableResult(r) ==
    \/ r.kind = "exception"
    \/ (r.kind = "response" /\ r.status_code \in ({403, 429} \cup (500..599)))

NonRetryableResult(r) ==
    /\ r.kind = "response"
    /\ r.status_code \notin ({403, 429} \cup (500..599))
    /\ ~GoodResponse(r)

\* C11: an attempt that ends in an exception, 403, 429 or 5xx is followed by
\* one backoff sleep and, if attempts remain, by another attempt; two such
\* responses and then 200 with the marker make three transport calls, three
\* records, two backoff sleeps and return the third body
C11_RetryableRetried ==
    /\ [][(pc = "request" /\ RetryableResult(resp'))
             => (/\ pc' = "loop"
                 /\ callRequests' = callRequests + 1
                 /\ Len(backoffSleeps') = Len(backoffSleeps) + 1
                 /\ now' - now - backoffSleeps'[Len(backoffSleeps')] \in RoundTrips)]_vars
    /\ [][(pc = "loop" /\ attempt < max_retries)
             => (/\ pc' = "request" /\ attempt' = attempt + 1
                 /\ backoffSleeps' = backoffSleeps /\ requests' = requests)]_vars
    /\ []((/\ pc = "returned" /\ servedFrom = "network"
           /\ callRequests = 3 /\ requests = 3 /\ Len(recorded) = 3)
             => (backoffSleeps = <<BaseBackoff, 2 * BaseBackoff>> /\ ret = resp.text))

\* two retryable responses were recorded, the third attempt returned the page
C11_Witness ==
    /\ pc = "returned"
    /\ servedFrom = "network"
    /\ callRequests = 3 /\ requests = 3 /\ Len(recorded) = 3
    /\ Len(backoffSleeps) = 2
    /\ ret = SchedulePage

RECURSIVE Pow2(_)
Pow2(n) == IF n = 0 THEN 1 ELSE 2 * Pow2(n - 1)

\* C12: the r-th backoff sleep of a call lasts base * 2^(r-1), whatever made
\* it retry; the sleeps never shrink; every call starts again at the base
C12_BackoffGrowth ==
    /\ [](\A r \in 1..Len(backoffSleeps) : backoffSleeps[r] = BaseBackoff * Pow2(r - 1))
    /\ [](\A r \in 2..Len(backoffSleeps) : backoffSleeps[r - 1] <= backoffSleeps[r])
    /\ [](pc \in {"loop", "request"} => backoff = BaseBackoff * Pow2(Len(backoffSleeps)))
    /\ [][FetchCalled => (backoff' = BaseBackoff /\ backoffSleeps' = <<>>)]_vars

\* a later call slept three times, one of the retries after an exception
C12_Witness ==
    /\ Len(backoffSleeps) = 3
    /\ backoffSleeps[3] = 4 * BaseBackoff
    /\ requests > callRequests
    /\ requests > Len(recorded)
    /\ Len(recorded) > 0

\* C13: a response that is neither a success nor retryable ends the fetch in
\* failure at once: no further transport call, no backoff sleep, no cache write
C13_NonRetryableStops ==
    /\ [][(pc = "request" /\ NonRetryableResult(resp'))
             => (/\ pc' = "returned" /\ ret' = None /\ servedFrom' = "none"
                 /\ backoffSleeps' = backoffSleeps /\ now' - now \in RoundTrips
                 /\ files' = files /\ cacheWrite' = "none")]_vars
    /\ [][pc = "returned" => (requests' = requests /\ pc' \in {"returned", "loop"})]_vars
    /\ []((pc = "returned" /\ NonRetryableResult(resp))
             => (ret = None /\ cacheWrite = "none"))

\* a 404 on the first of three attempts ended the fetch
C13_Witness ==
    /\ pc = "returned"
    /\ resp = Response(404, SchedulePage)
    /\ attempt = 1 /\ max_retries = 3 /\ callRequests = 1
    /\ backoffSleeps = <<>>
    /\ ret = None

WriteFailed(outcome) == outcome \in {"open_failed", "write_failed"}

\* C14: when a 200 response with the marker arrives and the cache write
\* fails, fetch still returns the body as success and attempts nothing more
C14_WriteFailureNonFatal ==
    /\ [][(pc = "request" /\ WriteFailed(cacheWrite'))
             => (/\ pc' = "returned" /\ servedFrom' = "network"
                 /\ GoodResponse(resp') /\ ret' = resp'.text)]_vars
    /\ []((pc = "returned" /\ WriteFailed(cacheWrite))
             => (servedFrom = "network" /\ GoodResponse(resp) /\ ret = resp.text))
    /\ [][(pc = "returned" /\ WriteFailed(cacheWrite) /\ ~FetchCalled)
             => (requests' = requests /\ attempt' = attempt)]_vars

\* the write failed on the first attempt and the page was returned
C14_Witness ==
    /\ pc = "returned"
    /\ cacheWrite = "write_failed"
    /\ ret = SchedulePage
    /\ attempt = 1 /\ max_retries = 3
    /\ files[FbrefPath].text = EmptyText

\* C15: the cache changes only in the step of a successful network fetch; a
\* failed fetch or a cache hit leaves every entry as it was; none is deleted
C15_CacheFrame ==
    /\ [][files' # files
             => (/\ pc = "request" /\ pc' = "returned"
                 /\ servedFrom' = "network" /\ GoodResponse(resp') /\ ret' # None)]_vars
    /\ [][\A p \in CachePaths : files[p].kind = "file" => files'[p].kind = "file"]_vars

\* three attempts ended in exceptions and the old entry is as it was stored
C15_Witness ==
    /\ pc = "returned"
    /\ resp = Exception
    /\ callRequests = 3
    /\ ret = None
    /\ files[FbrefPath] = File(LastWeekPage, 0 - DefaultCacheSeconds * TicksPerSecond - 1)

InWindow(ts, t) == {i \in 1..Len(ts) : ts[i] > t - WindowTicks}

\* C16: from any reachable throttle state two calls of the rate-limit wait
\* with no record in between suspend at most once, and the second call finds
\* fewer than N timestamps in the window
C16_WaitIdempotent ==
    /\ [](\A d \in RoundTrips \cup {BaseBackoff} :
             LET first == sleep_to_obey_rate_limit(request_timestamps, now)
                 second == sleep_to_obey_rate_limit(first.ts, first.now + d)
             IN /\ first.slept + second.slept <= 1
                /\ Cardinality(InWindow(first.ts, first.now + d)) < MAX_REQUESTS_PER_MIN
                /\ second.ts = first.ts \/ second.slept = 0)
    /\ [][(pc = "loop" /\ resp = Exception) => throttleSleeps' = throttleSleeps]_vars

\* the first attempt waited for the ten requests made at clock 0, failed with
\* an exception, and the second attempt has made its wait call
C16_Witness ==
    /\ pc = "request"
    /\ attempt = 2 /\ callRequests = 1
    /\ throttleSleeps = 1
    /\ Len(recorded) = MAX_REQUESTS_PER_MIN
    /\ recorded[Len(recorded)] = 0
    /\ now > WindowTicks + RateGuardTicks

\* C17: the recorded timestamps are in ascending order; right after a purge
\* at clock now every retained one is later than now - W and at most N remain
C17_WindowShape ==
    /\ \A i \in 1..(Len(request_timestamps) - 1) :
          request_timestamps[i] <= request_timestamps[i + 1]
    /\ \A i \in 1..(Len(recorded) - 1) : recorded[i] <= recorded[i + 1]
    /\ pc = "request"
          => (/\ \A i \in 1..Len(request_timestamps) :
                    request_timestamps[i] > now - WindowTicks
              /\ Len(request_timestamps) <= MAX_REQUESTS_PER_MIN)

\* a purge after a rate-limit sleep dropped some timestamps and kept others
C17_Witness ==
    /\ pc = "request"
    /\ throttleSleeps = 1
    /\ request_timestamps # <<>>
    /\ Len(recorded) > Len(request_timestamps)

\* C19: every transport invocation follows a rate-limit check made in the
\* same attempt; the list never holds more than N timestamps, and after the
\* check there is room for the request about to be made
C19_RoomAfterCheck ==
    /\ [](Len(request_timestamps) <= MAX_REQUESTS_PER_MIN)
    /\ [](pc = "request" => Len(request_timestamps) < MAX_REQUESTS_PER_MIN)
    /\ [](callRequests = IF pc = "request" THEN attempt - 1 ELSE attempt)
    /\ [][requests' # requests => (pc = "request" /\ requests' = requests + 1)]_vars
    /\ [][(pc' = "request" /\ pc # "request")
             => (pc = "loop" /\ attempt' = attempt + 1
                 /\ throttleSleeps' - throttleSleeps \in {0, 1})]_vars

\* the list was full, the check slept once, and the request can be recorded
C19_Witness ==
    /\ pc = "request"
    /\ throttleSleeps = 1
    /\ Len(request_timestamps) < MAX_REQUESTS_PER_MIN
    /\ Len(recorded) >= MAX_REQUESTS_PER_MIN
    /\ now >= recorded[1] + WindowTicks + RateGuardTicks

TerminalResult(r) == r.kind = "response" /\ ~RetryableResult(r)

\* C20: a call sleeps for backoff once per attempt that ended in a retryable
\* result, the last permitted attempt included: when every attempt ends so,
\* it sleeps max-attempts times, the last sleep just before returning failure
C20_SleepPerRetryable ==
    /\ [](pc \in {"loop", "returned"}
             => Len(backoffSleeps) = callRequests - (IF TerminalResult(resp) THEN 1 ELSE 0))
    /\ []((pc = "returned" /\ RetryableResult(resp))
             => (/\ callRequests = max_retries /\ Len(backoffSleeps) = max_retries
                 /\ ret = None))
    /\ [][(pc = "request" /\ attempt = max_retries /\ RetryableResult(resp'))
             => now' - now >= backoff]_vars

\* three 429 answers: three sleeps, then failure
C20_Witness ==
    /\ pc = "returned"
    /\ resp = Response(429, ChallengePage)
    /\ max_retries = 3
    /\ backoffSleeps = <<BaseBackoff, 2 * BaseBackoff, 4 * BaseBackoff>>
    /\ ret = None

HasResult(r) == r.score \notin {NoCell, "", " "}
PeriodText(n) == CASE n = 0 -> "0" [] n = 1 -> "1" [] n = 2 -> "2" [] n = 3 -> "3"
                   [] OTHER -> "4"
CompletedPeriods(rows) ==
    {n \in 0..4 : \E i \in 1..Len(rows) : rows[i].week = PeriodText(n) /\ HasResult(rows[i])}

\* C18: the latest completed period is the maximum period number among the
\* rows that have a result and an integer period; it is none when there is no
\* such row or no table; a row without a result never raises it
C18_LatestCompletedPeriod ==
    stage # "FETCHED"
       => LET done == CompletedPeriods(find_premier_league_table(ret).rows) IN
            /\ done = {} => target_week = None
            /\ done # {} => (/\ target_week # None
                             /\ target_week.value \in done
                             /\ \A n \in done : n <= target_week.value)

\* periods {1: no result, 2: "2-1", 3: "1-1"} gave 3
C18_Witness ==
    /\ stage = "PERIOD_RESOLVED"
    /\ \E h \in {"/en/matches/m"} :
          ret.divs = <<SchedDiv(<<Row("1", "", h), Row("2", "2-1", h), Row("3", "1-1", h)>>)>>
    /\ target_week = Week(3)

====
